---- MODULE Spec2Model ----
(***************************************************************************)
(* serde_shon: a codec between a flat list of command-line style tokens    *)
(* ("SHON") and serde's data model.  src/src/ser.rs is the encoder         *)
(* (Serializer), src/src/de.rs the decoder (Deserializer).                 *)
(*                                                                         *)
(* A token is a sequence of one-character strings, so that starts_with,    *)
(* strip_prefix, format!, the numeric parses and the shell escaping are    *)
(* computed character by character as the code computes them.              *)
(***************************************************************************)
EXTENDS Integers, Sequences, FiniteSets, TLC

(***************************************************************************)
(* Bounds of the model.                                                    *)
(***************************************************************************)
\* longest string drawn as a scalar string value, in characters
MaxLen == 3
\* longest token list drawn freely from the token vocabulary
MaxToks == 3
\* most elements of a sequence value, most entries of a map value
MaxSeq == 2

(***************************************************************************)
(* Characters and text.                                                    *)
(***************************************************************************)
Digits == <<"0", "1", "2", "3", "4", "5", "6", "7", "8", "9">>

IsDigit(c) == \E i \in 1..10 : Digits[i] = c

DigitVal(c) == (CHOOSE i \in 1..10 : Digits[i] = c) - 1

AllDigits(s) == \A i \in 1..Len(s) : IsDigit(s[i])

\* the letters the float parser compares without regard to case
ToLower(c) ==
  CASE c = "I" -> "i"
    [] c = "N" -> "n"
    [] c = "F" -> "f"
    [] c = "A" -> "a"
    [] c = "T" -> "t"
    [] c = "Y" -> "y"
    [] c = "E" -> "e"
    [] OTHER -> c

LowerText(s) == [i \in 1..Len(s) |-> ToLower(s[i])]

Tail0(s) == IF s = <<>> THEN <<>> ELSE Tail(s)

\* str::starts_with
starts_with(s, p) == Len(s) >= Len(p) /\ SubSeq(s, 1, Len(p)) = p

\* the text after the first Len(p) characters (str::strip_prefix, String::remove(0))
DropChars(s, n) == SubSeq(s, n + 1, Len(s))

\* position of the first character of s that is in the set cs, 0 when none
RECURSIVE FindFrom(_, _, _)
FindFrom(s, cs, i) ==
  IF i > Len(s) THEN 0
  ELSE IF s[i] \in cs THEN i
  ELSE FindFrom(s, cs, i + 1)

Find(s, cs) == FindFrom(s, cs, 1)

\* the value of a run of decimal digits
RECURSIVE DecValue(_)
DecValue(s) ==
  IF s = <<>> THEN 0
  ELSE 10 * DecValue(SubSeq(s, 1, Len(s) - 1)) + DigitVal(s[Len(s)])

\* u64::to_string
RECURSIVE NatText(_)
NatText(n) ==
  IF n < 10 THEN <<Digits[n + 1]>>
  ELSE NatText(n \div 10) \o <<Digits[(n % 10) + 1]>>

\* i64::to_string
IntText(n) == IF n < 0 THEN <<"-">> \o NatText(-n) ELSE NatText(n)

(***************************************************************************)
(* The numeric parses of the standard library, as the code calls them.     *)
(* Every digit run of the model is shorter than ten characters, so the     *)
(* overflow errors of u64 and i64 do not arise.                            *)
(***************************************************************************)
\* str::parse::<u64>: an optional "+", then one or more digits
parse_u64_ok(s) ==
  LET body == IF s # <<>> /\ s[1] = "+" THEN Tail(s) ELSE s
  IN  body # <<>> /\ AllDigits(body)

parse_u64_val(s) == DecValue(IF s[1] = "+" THEN Tail(s) ELSE s)

\* str::parse::<i64>: an optional "+" or "-", then one or more digits
parse_i64_ok(s) ==
  LET body == IF s # <<>> /\ s[1] \in {"+", "-"} THEN Tail(s) ELSE s
  IN  body # <<>> /\ AllDigits(body)

parse_i64_val(s) ==
  IF s[1] = "-" THEN 0 - DecValue(Tail(s))
  ELSE DecValue(IF s[1] = "+" THEN Tail(s) ELSE s)

\* Number ::= ( Digit+ | Digit+ '.' Digit* | Digit* '.' Digit+ ) Exp?
FloatNumber(s) ==
  LET e    == Find(s, {"e", "E"})
      mant == IF e = 0 THEN s ELSE SubSeq(s, 1, e - 1)
      ex   == IF e = 0 THEN <<>> ELSE DropChars(s, e)
      exd  == IF ex # <<>> /\ ex[1] \in {"+", "-"} THEN Tail(ex) ELSE ex
      dot  == Find(mant, {"."})
      ip   == IF dot = 0 THEN mant ELSE SubSeq(mant, 1, dot - 1)
      fp   == IF dot = 0 THEN <<>> ELSE DropChars(mant, dot)
  IN  /\ AllDigits(ip)
      /\ AllDigits(fp)
      /\ Len(ip) + Len(fp) > 0
      /\ e # 0 => (exd # <<>> /\ AllDigits(exd))

\* str::parse::<f64>: Sign? ( 'inf' | 'infinity' | 'nan' | Number )
parse_f64_ok(s) ==
  LET body == IF s # <<>> /\ s[1] \in {"+", "-"} THEN Tail(s) ELSE s
  IN  \/ LowerText(body) \in { <<"i", "n", "f">>,
                               <<"i", "n", "f", "i", "n", "i", "t", "y">>,
                               <<"n", "a", "n">> }
      \/ FloatNumber(body)

(***************************************************************************)
(* shell_escape::unix::escape, which serialize_str calls: text made only   *)
(* of [a-zA-Z0-9_=/,.+-] is returned as it is; any other text, and the     *)
(* empty text, is wrapped in single quotes, each ' and ! inside it         *)
(* written as '\' followed by the character and a ' .                      *)
(***************************************************************************)
EscapeAllowed(c) ==
  \/ IsDigit(c)
  \/ c \in {"-", "_", "=", "/", ",", ".", "+"}
  \/ c \in { "a", "b", "c", "d", "e", "f", "g", "h", "i", "j", "k", "l", "m",
             "n", "o", "p", "q", "r", "s", "t", "u", "v", "w", "x", "y", "z",
             "A", "B", "C", "D", "E", "F", "G", "H", "I", "J", "K", "L", "M",
             "N", "O", "P", "Q", "R", "S", "T", "U", "V", "W", "X", "Y", "Z" }

RECURSIVE EscapeBody(_)
EscapeBody(s) ==
  IF s = <<>> THEN <<>>
  ELSE (IF s[1] \in {"'", "!"} THEN <<"'", "\\", s[1], "'">> ELSE <<s[1]>>)
       \o EscapeBody(Tail(s))

escape(s) ==
  IF s # <<>> /\ \A i \in 1..Len(s) : EscapeAllowed(s[i]) THEN s
  ELSE <<"'">> \o EscapeBody(s) \o <<"'">>

(***************************************************************************)
(* The reserved tokens.                                                    *)
(***************************************************************************)
TokTrue == <<"-", "t">>
TokFalse == <<"-", "f">>
TokNone == <<"-", "n">>
TokEscape == <<"-", "-">>
TokOpen == <<"[">>
TokClose == <<"]">>
TokEmptySeq == <<"[", "]">>
TokEmptyMap == <<"[", "-", "-", "]">>

\* format!("--{}", name)
KeyTok(name) == <<"-", "-">> \o name

(***************************************************************************)
(* Values of serde's data model, as the derived Serialize implementations  *)
(* present them to the encoder.  k names the shape:                        *)
(*   bool(b) u64(n) i64(n) str(s) none some(o) seq(xs) map(kv) struct(fs)  *)
(*   unit_variant(tag) newtype_variant(tag, o) tuple_variant(tag, xs)      *)
(*   struct_variant(tag, fs)                                               *)
(* A map entry is [key, val] with key a text; a field is [name, val].      *)
(***************************************************************************)
VBool(b) == [k |-> "bool", b |-> b]
VU64(n) == [k |-> "u64", n |-> n]
VI64(n) == [k |-> "i64", n |-> n]
VStr(s) == [k |-> "str", s |-> s]
VNone == [k |-> "none"]
VSome(v) == [k |-> "some", o |-> v]
VSeq(xs) == [k |-> "seq", xs |-> xs]
VMap(kv) == [k |-> "map", kv |-> kv]
VStruct(fs) == [k |-> "struct", fs |-> fs]
VUnitVariant(tag) == [k |-> "unit_variant", tag |-> tag]
VNewtypeVariant(tag, v) == [k |-> "newtype_variant", tag |-> tag, o |-> v]
VTupleVariant(tag, xs) == [k |-> "tuple_variant", tag |-> tag, xs |-> xs]
VStructVariant(tag, fs) == [k |-> "struct_variant", tag |-> tag, fs |-> fs]

(***************************************************************************)
(* The encoder, src/src/ser.rs.  A Serializer is [output, empty_struct].   *)
(***************************************************************************)
\* Serializer { output: Vec::new(), ..Default::default() }
NewSerializer == [output |-> <<>>, empty_struct |-> FALSE]

\* self.output.push(tok)
Push(s, tok) == [s EXCEPT !.output = Append(@, tok)]

serialize_bool(s, v) == Push(s, IF v THEN TokTrue ELSE TokFalse)

serialize_i64(s, v) == Push(s, IntText(v))

serialize_u64(s, v) == Push(s, NatText(v))

\* NeedsEscape without the float parse
NeedsEscape_NoFloat(result) ==
  \/ result = <<"-">>
  \/ result = TokEscape
  \/ parse_i64_ok(result)

\* whether serialize_str puts the "--" escape token in front of the text
NeedsEscape(result) ==
  \/ result = <<"-">>
  \/ result = TokEscape
  \/ parse_i64_ok(result)
  \/ parse_f64_ok(result)

serialize_str(s, v) ==
  LET result == escape(v)
  IN  Push(IF NeedsEscape(result) THEN Push(s, TokEscape) ELSE s, result)

serialize_unit(s) == Push(s, TokNone)

serialize_none(s) == serialize_unit(s)

serialize_unit_variant(s, variant) == serialize_str(s, variant)

serialize_seq(s) == Push(s, TokOpen)

serialize_tuple_variant(s, variant) ==
  Push(Push(Push(s, TokOpen), KeyTok(variant)), TokOpen)

serialize_map(s) == Push(s, TokOpen)

serialize_struct(s, len) ==
  IF len = 0 THEN [Push(s, TokEmptyMap) EXCEPT !.empty_struct = TRUE]
  ELSE serialize_map(s)

serialize_struct_variant(s, variant) ==
  Push(Push(Push(s, TokOpen), KeyTok(variant)), TokOpen)

\* SerializeSeq::end, SerializeTuple::end, SerializeTupleStruct::end
SerializeSeq_end(s) == Push(s, TokClose)

SerializeTupleVariant_end(s) == Push(Push(s, TokClose), TokClose)

SerializeMap_end(s) == Push(s, TokClose)

\* SerializeStruct::end that leaves empty_struct set
SerializeStruct_end_KeepFlag(s) ==
  IF s.empty_struct THEN s ELSE Push(s, TokClose)

SerializeStruct_end(s) ==
  IF s.empty_struct THEN [s EXCEPT !.empty_struct = FALSE]
  ELSE Push(s, TokClose)

SerializeStructVariant_end(s) == Push(Push(s, TokClose), TokClose)

\* the rewriting half of SerializeMap::serialize_key: s is the serializer
\* after key.serialize(&mut **self)
RewriteKey(s) ==
  LET key  == s.output[Len(s.output)]
      rest == [s EXCEPT !.output = SubSeq(@, 1, Len(@) - 1)]
  IN  IF starts_with(key, <<"'">>)
      THEN Push(rest, <<"'", "-", "-">> \o DropChars(key, 1))
      ELSE Push(rest, KeyTok(key))

\* SerializeMap::serialize_key for a key that is a string
serialize_key(s, key) == RewriteKey(serialize_str(s, key))

\* the first half of SerializeStruct::serialize_field and of
\* SerializeStructVariant::serialize_field: the field's name
serialize_field_name(s, key) == Push(s, KeyTok(key))

(***************************************************************************)
(* The traversal serde's derived Serialize implementations drive the       *)
(* encoder with: value.serialize(&mut serializer).                         *)
(***************************************************************************)
RECURSIVE Serialize(_, _)
RECURSIVE SerializeElements(_, _)
RECURSIVE SerializeEntries(_, _)
RECURSIVE SerializeFields(_, _)

\* serialize_element / serialize_field(value) / serialize_value for each
SerializeElements(s, xs) ==
  IF xs = <<>> THEN s
  ELSE SerializeElements(Serialize(s, Head(xs)), Tail(xs))

\* serialize_key then serialize_value for each entry
SerializeEntries(s, kv) ==
  IF kv = <<>> THEN s
  ELSE SerializeEntries(Serialize(serialize_key(s, Head(kv).key), Head(kv).val),
                        Tail(kv))

\* serialize_field(key, value) for each field
SerializeFields(s, fs) ==
  IF fs = <<>> THEN s
  ELSE SerializeFields(Serialize(serialize_field_name(s, Head(fs).name),
                                 Head(fs).val),
                       Tail(fs))

\* serialize_newtype_variant: a map of one entry, the variant its key
serialize_newtype_variant(s, variant, v) ==
  SerializeMap_end(Serialize(serialize_key(serialize_map(s), variant), v))

Serialize(s, v) ==
  CASE v.k = "bool" -> serialize_bool(s, v.b)
    [] v.k = "u64" -> serialize_u64(s, v.n)
    [] v.k = "i64" -> serialize_i64(s, v.n)
    [] v.k = "str" -> serialize_str(s, v.s)
    [] v.k = "none" -> serialize_none(s)
    [] v.k = "some" -> Serialize(s, v.o)
    [] v.k = "seq" -> SerializeSeq_end(SerializeElements(serialize_seq(s), v.xs))
    [] v.k = "map" -> SerializeMap_end(SerializeEntries(serialize_map(s), v.kv))
    [] v.k = "struct" ->
         SerializeStruct_end(SerializeFields(serialize_struct(s, Len(v.fs)), v.fs))
    [] v.k = "unit_variant" -> serialize_unit_variant(s, v.tag)
    [] v.k = "newtype_variant" -> serialize_newtype_variant(s, v.tag, v.o)
    [] v.k = "tuple_variant" ->
         SerializeTupleVariant_end(
           SerializeElements(serialize_tuple_variant(s, v.tag), v.xs))
    [] v.k = "struct_variant" ->
         SerializeStructVariant_end(
           SerializeFields(serialize_struct_variant(s, v.tag), v.fs))

\* to_params: the output of a fresh Serializer after value.serialize
to_params(v) == Serialize(NewSerializer, v).output

(***************************************************************************)
(* The shapes a decode is made against (the T of from_iter::<T, _>), and   *)
(* the visitors serde's Deserialize implementations hand to the decoder.   *)
(*   bool u64 i64 str opt(t) seq(t) map(t) struct(fs) enum(vs)             *)
(*   tuple(ts): the visitor of a tuple variant's payload                   *)
(*   ident(names, lenient): the visitor of a field name (lenient: an       *)
(*     unknown name is skipped) or of a variant tag (not lenient)          *)
(*   ignored: serde's IgnoredAny, the value of a skipped field             *)
(* A field is [name, t]; a variant is [tag, form, t, ts, fs].              *)
(***************************************************************************)
TBool == [k |-> "bool"]
TU64 == [k |-> "u64"]
TI64 == [k |-> "i64"]
TStr == [k |-> "str"]
TOpt(t) == [k |-> "opt", t |-> t]
TSeq(t) == [k |-> "seq", t |-> t]
TMap(t) == [k |-> "map", t |-> t]
TStruct(fs) == [k |-> "struct", fs |-> fs]
TEnum(vs) == [k |-> "enum", vs |-> vs]
TTuple(ts) == [k |-> "tuple", ts |-> ts]
TIdent(names, lenient) == [k |-> "ident", names |-> names, lenient |-> lenient]
TIgnored == [k |-> "ignored"]

Field(name, t) == [name |-> name, t |-> t]
UnitVar(tag) == [tag |-> tag, form |-> "unit", t |-> TIgnored, ts |-> <<>>, fs |-> <<>>]
NewtypeVar(tag, t) == [tag |-> tag, form |-> "newtype", t |-> t, ts |-> <<>>, fs |-> <<>>]
TupleVar(tag, ts) == [tag |-> tag, form |-> "tuple", t |-> TIgnored, ts |-> ts, fs |-> <<>>]
StructVar(tag, fs) == [tag |-> tag, form |-> "struct", t |-> TIgnored, ts |-> <<>>, fs |-> fs]

\* what a decode step hands back that is no value of the data model
NoVal == [k |-> "noval"]
\* Ok(None) of next_element_seed / next_key_seed
EndOfGroup == [k |-> "end"]
\* the value of IgnoredAny
VIgnored == [k |-> "ignored"]
\* a field or variant picked by an identifier; i = 0 is the skipped field
VIdent(i) == [k |-> "ident", i |-> i]

(***************************************************************************)
(* The decoder, src/src/de.rs.  A Deserializer is [args, empty]: args is   *)
(* the reversed token list, its last element the next token.  log is a     *)
(* history of the decode, not a field of the code: one entry per visitor   *)
(* callback the untyped dispatch makes (ev the callback, tok the token     *)
(* popped for it), per token popped as a group's closer (ev = "close") and *)
(* per end-of-group answer (ev = "end"); n is the number of tokens left    *)
(* when the entry is made.                                                 *)
(*                                                                         *)
(* A step's result is [st, val, msg, d]: st is "ok" (Ok(val)), "err"       *)
(* (Err(Error::Message(msg))) or "panic" (an unwrap() of None or a         *)
(* panic!(): the process aborts, nothing is returned).                     *)
(***************************************************************************)
Ok(v, d) == [st |-> "ok", val |-> v, msg |-> "", d |-> d]
Err(m, d) == [st |-> "err", val |-> NoVal, msg |-> m, d |-> d]
Panic(d) == [st |-> "panic", val |-> NoVal, msg |-> "", d |-> d]

Reverse(s) == [i \in 1..Len(s) |-> s[Len(s) + 1 - i]]

\* str::trim, for the one kind of whitespace the model's tokens hold
RECURSIVE TrimStart(_)
TrimStart(s) == IF s # <<>> /\ s[1] = " " THEN TrimStart(Tail(s)) ELSE s

trim(s) == Reverse(TrimStart(Reverse(TrimStart(s))))

\* Deserializer::from_args / from_iter: trim each token, drop the empty
\* ones, reverse
NewDeserializer(tokens) ==
  [args  |-> Reverse(SelectSeq([i \in 1..Len(tokens) |-> trim(tokens[i])],
                               LAMBDA p : p # <<>>)),
   empty |-> FALSE,
   log   |-> <<>>]

\* self.args.last()
LastArg(d) == d.args[Len(d.args)]

\* self.args.pop()
PopArg(d) == [d EXCEPT !.args = SubSeq(@, 1, Len(@) - 1)]

Logged(d, ev, tok) ==
  [d EXCEPT !.log = Append(@, [ev |-> ev, tok |-> tok, n |-> Len(d.args)])]

\* the tokens not yet consumed, in reading order
Remaining(d) == Reverse(d.args)

\* IsKey without the length test
IsKey_AnyDashes(tok) == starts_with(tok, <<"-", "-">>)

\* next.starts_with("--") && next.len() > 2
IsKey(tok) == starts_with(tok, <<"-", "-">>) /\ Len(tok) > 2

(***************************************************************************)
(* serde's visitors: what each accepts of the callbacks the decoder makes. *)
(***************************************************************************)
IndexOf(names, s) ==
  IF \E i \in 1..Len(names) : names[i] = s
  THEN CHOOSE i \in 1..Len(names) : names[i] = s
  ELSE 0

visit_bool(vis, b, d) ==
  CASE vis.k = "bool" -> Ok(VBool(b), d)
    [] vis.k = "ignored" -> Ok(VIgnored, d)
    [] OTHER -> Err("invalid type", d)

visit_u64(vis, n, d) ==
  CASE vis.k = "u64" -> Ok(VU64(n), d)
    [] vis.k = "i64" -> Ok(VI64(n), d)
    [] vis.k = "ident" ->
         IF n < Len(vis.names) THEN Ok(VIdent(n + 1), d)
         ELSE IF vis.lenient THEN Ok(VIdent(0), d)
         ELSE Err("invalid value", d)
    [] vis.k = "ignored" -> Ok(VIgnored, d)
    [] OTHER -> Err("invalid type", d)

visit_i64(vis, n, d) ==
  CASE vis.k = "i64" -> Ok(VI64(n), d)
    [] vis.k = "u64" -> IF n >= 0 THEN Ok(VU64(n), d) ELSE Err("invalid value", d)
    [] vis.k = "ignored" -> Ok(VIgnored, d)
    [] OTHER -> Err("invalid type", d)

visit_f64(vis, d) ==
  CASE vis.k = "ignored" -> Ok(VIgnored, d)
    [] OTHER -> Err("invalid type", d)

visit_str(vis, s, d) ==
  CASE vis.k = "str" -> Ok(VStr(s), d)
    [] vis.k = "ident" ->
         IF IndexOf(vis.names, s) # 0 THEN Ok(VIdent(IndexOf(vis.names, s)), d)
         ELSE IF vis.lenient THEN Ok(VIdent(0), d)
         ELSE Err("unknown variant", d)
    [] vis.k = "ignored" -> Ok(VIgnored, d)
    [] OTHER -> Err("invalid type", d)

visit_none(vis, d) ==
  CASE vis.k = "ignored" -> Ok(VIgnored, d)
    [] OTHER -> Err("invalid type", d)

(***************************************************************************)
(* The decoder's handlers and the visitors of compound shapes, which call  *)
(* each other: T::deserialize picks the handler, the handler classifies    *)
(* the next token and calls the visitor, the visitor asks the decoder for  *)
(* elements, keys and values.                                              *)
(***************************************************************************)
RECURSIVE Deserialize(_, _)
RECURSIVE deserialize_any(_, _)
RECURSIVE VecVisitSeq(_, _, _)
RECURSIVE TupleVisitSeq(_, _, _)
RECURSIVE StructVisitSeq(_, _, _)
RECURSIVE StructVisitMap(_, _, _)
RECURSIVE MapVisitMap(_, _, _)
RECURSIVE IgnoredVisitSeq(_)
RECURSIVE IgnoredVisitMap(_)

\* SeqAccess::next_element_seed
next_element_seed(d, ty) ==
  IF d.empty
  THEN Ok(EndOfGroup, Logged([d EXCEPT !.empty = FALSE], "end", <<>>))
  ELSE IF d.args = <<>> THEN Panic(d)
  ELSE IF LastArg(d) = TokClose
  THEN Ok(EndOfGroup, Logged([d EXCEPT !.empty = FALSE], "end", TokClose))
  ELSE Deserialize(d, ty)

\* MapAccess::next_key_seed
next_key_seed(d, ty) ==
  IF d.empty
  THEN Ok(EndOfGroup, Logged([d EXCEPT !.empty = FALSE], "end", <<>>))
  ELSE IF d.args = <<>> THEN Panic(d)
  ELSE IF LastArg(d) = TokClose
  THEN Ok(EndOfGroup, Logged([d EXCEPT !.empty = FALSE], "end", TokClose))
  ELSE Deserialize(d, ty)

\* MapAccess::next_value_seed
next_value_seed(d, ty) == Deserialize(d, ty)

\* Vec<T>, r the answer to its element request: the end, or one more element
VecElement(r, t, acc) ==
  IF r.st # "ok" THEN r
  ELSE IF r.val.k = "end" THEN Ok(VSeq(acc), r.d)
  ELSE VecVisitSeq(r.d, t, Append(acc, r.val))

\* Vec<T>: elements until the decoder answers None
VecVisitSeq(d, t, acc) == VecElement(next_element_seed(d, t), t, acc)

TupleElement(r, ts, acc) ==
  IF r.st # "ok" THEN r
  ELSE IF r.val.k = "end" THEN Err("invalid length", r.d)
  ELSE TupleVisitSeq(r.d, ts, Append(acc, r.val))

\* a tuple of Len(ts) elements: exactly that many element requests
TupleVisitSeq(d, ts, acc) ==
  IF Len(acc) = Len(ts) THEN Ok(VSeq(acc), d)
  ELSE TupleElement(next_element_seed(d, ts[Len(acc) + 1]), ts, acc)

StructElement(r, fs, acc) ==
  IF r.st # "ok" THEN r
  ELSE IF r.val.k = "end" THEN Err("invalid length", r.d)
  ELSE StructVisitSeq(r.d, fs,
                      Append(acc, [name |-> fs[Len(acc) + 1].name, val |-> r.val]))

\* a derived struct read by position: one element request per field
StructVisitSeq(d, fs, acc) ==
  IF Len(acc) = Len(fs) THEN Ok(VStruct(acc), d)
  ELSE StructElement(next_element_seed(d, fs[Len(acc) + 1].t), fs, acc)

\* the end of a derived struct's visit_map: an Option field never given is
\* None, any other is an error
StructFinish(d, fs, got) ==
  IF \E i \in 1..Len(fs) : got[i].k = "noval" /\ fs[i].t.k # "opt"
  THEN Err("missing field", d)
  ELSE Ok(VStruct([i \in 1..Len(fs) |->
                     [name |-> fs[i].name,
                      val  |-> IF got[i].k = "noval" THEN VNone ELSE got[i]]]), d)

\* v the value of field i (i = 0: of a skipped field)
StructValue(v, i, fs, got) ==
  IF v.st # "ok" THEN v
  ELSE StructVisitMap(v.d, fs, IF i = 0 THEN got ELSE [got EXCEPT ![i] = v.val])

\* r the answer to a derived struct's key request
StructKey(r, fs, got) ==
  IF r.st # "ok" THEN r
  ELSE IF r.val.k = "end" THEN StructFinish(r.d, fs, got)
  ELSE IF r.val.i # 0 /\ got[r.val.i].k # "noval" THEN Err("duplicate field", r.d)
  ELSE StructValue(next_value_seed(r.d, IF r.val.i = 0 THEN TIgnored
                                        ELSE fs[r.val.i].t),
                   r.val.i, fs, got)

\* a derived struct read by name: keys until None, each followed by its value
StructVisitMap(d, fs, got) ==
  StructKey(next_key_seed(d, TIdent([i \in 1..Len(fs) |-> fs[i].name], TRUE)),
            fs, got)

\* HashMap::insert
MapInsert(kv, key, val) ==
  IF \E i \in 1..Len(kv) : kv[i].key = key
  THEN [i \in 1..Len(kv) |-> IF kv[i].key = key THEN [key |-> key, val |-> val]
                                               ELSE kv[i]]
  ELSE Append(kv, [key |-> key, val |-> val])

MapValue(v, key, t, acc) ==
  IF v.st # "ok" THEN v
  ELSE MapVisitMap(v.d, t, MapInsert(acc, key, v.val))

MapKey(r, t, acc) ==
  IF r.st # "ok" THEN r
  ELSE IF r.val.k = "end" THEN Ok(VMap(acc), r.d)
  ELSE MapValue(next_value_seed(r.d, t), r.val.s, t, acc)

\* HashMap<String, T>: entries until the decoder answers None
MapVisitMap(d, t, acc) == MapKey(next_key_seed(d, TStr), t, acc)

IgnoredElement(r) ==
  IF r.st # "ok" THEN r
  ELSE IF r.val.k = "end" THEN Ok(VIgnored, r.d)
  ELSE IgnoredVisitSeq(r.d)

\* IgnoredAny: elements until None
IgnoredVisitSeq(d) == IgnoredElement(next_element_seed(d, TIgnored))

IgnoredValue(v) == IF v.st # "ok" THEN v ELSE IgnoredVisitMap(v.d)

IgnoredKey(r) ==
  IF r.st # "ok" THEN r
  ELSE IF r.val.k = "end" THEN Ok(VIgnored, r.d)
  ELSE IgnoredValue(next_value_seed(r.d, TIgnored))

\* IgnoredAny: entries until None
IgnoredVisitMap(d) == IgnoredKey(next_key_seed(d, TIgnored))

\* Visitor::visit_seq of each visitor
visit_seq(vis, d) ==
  CASE vis.k = "seq" -> VecVisitSeq(d, vis.t, <<>>)
    [] vis.k = "tuple" -> TupleVisitSeq(d, vis.ts, <<>>)
    [] vis.k = "struct" -> StructVisitSeq(d, vis.fs, <<>>)
    [] vis.k = "ignored" -> IgnoredVisitSeq(d)
    [] OTHER -> Err("invalid type", d)

\* Visitor::visit_map of each visitor
visit_map(vis, d) ==
  CASE vis.k = "map" -> MapVisitMap(d, vis.t, <<>>)
    [] vis.k = "struct" -> StructVisitMap(d, vis.fs, [i \in 1..Len(vis.fs) |-> NoVal])
    [] vis.k = "ignored" -> IgnoredVisitMap(d)
    [] OTHER -> Err("invalid type", d)

\* s.args.pop().unwrap() after the visitor of a "[" group has returned
CloseGroup(result) ==
  IF result.st = "panic" THEN result
  ELSE IF result.d.args = <<>> THEN Panic(result.d)
  ELSE [result EXCEPT !.d = PopArg(Logged(@, "close", LastArg(@)))]

\* the "[" arm of deserialize_any, s the decoder after the pop of "["
OpenArm(vis, s) ==
  IF s.args = <<>> THEN Panic(s)
  ELSE CloseGroup(IF IsKey(LastArg(s))
                  THEN visit_map(vis, Logged(s, "visit_map", TokOpen))
                  ELSE visit_seq(vis, Logged(s, "visit_seq", TokOpen)))

\* the last arm of deserialize_any: a key, a number or a string
ScalarArm(vis, v, s) ==
  IF IsKey(v) THEN visit_str(vis, DropChars(v, 2), Logged(s, "visit_key", v))
  ELSE IF parse_u64_ok(v) THEN visit_u64(vis, parse_u64_val(v), Logged(s, "visit_u64", v))
  ELSE IF parse_i64_ok(v) THEN visit_i64(vis, parse_i64_val(v), Logged(s, "visit_i64", v))
  ELSE IF parse_f64_ok(v) THEN visit_f64(vis, Logged(s, "visit_f64", v))
  ELSE visit_str(vis, v, Logged(s, "visit_str", v))

\* the match of deserialize_any on the popped token tok, s the decoder
\* after the pop
MatchArm(vis, tok, s) ==
  CASE tok = TokTrue -> visit_bool(vis, TRUE, Logged(s, "visit_bool", tok))
    [] tok = TokFalse -> visit_bool(vis, FALSE, Logged(s, "visit_bool", tok))
    [] tok = TokNone -> visit_none(vis, Logged(s, "visit_none", tok))
    [] tok = TokEscape ->
         IF s.args = <<>> THEN Panic(s)
         ELSE visit_str(vis, LastArg(s), Logged(PopArg(s), "visit_str", tok))
    [] tok = TokOpen -> OpenArm(vis, s)
    [] tok = TokEmptySeq ->
         visit_seq(vis, Logged([s EXCEPT !.empty = TRUE], "visit_seq", tok))
    [] tok = TokEmptyMap ->
         visit_map(vis, Logged([s EXCEPT !.empty = TRUE], "visit_map", tok))
    [] OTHER -> ScalarArm(vis, tok, s)

\* Deserializer::deserialize_any, the untyped dispatch
deserialize_any(d, vis) ==
  IF d.args = <<>> THEN visit_none(vis, Logged(d, "visit_none", <<>>))
  ELSE MatchArm(vis, LastArg(d), PopArg(d))

\* visitor.visit_some(self): Some of what T::deserialize gives
SomeOf(r) == IF r.st = "ok" THEN [r EXCEPT !.val = VSome(@)] ELSE r

\* deserialize_option that pops the token it has looked at in both branches
deserialize_option_Eager(d, t) ==
  IF d.args = <<>> THEN Panic(d)
  ELSE IF LastArg(d) = TokNone THEN Ok(VNone, PopArg(d))
  ELSE SomeOf(Deserialize(PopArg(d), t))

\* Deserializer::deserialize_option
deserialize_option(d, t) ==
  IF d.args = <<>> THEN Panic(d)
  ELSE IF LastArg(d) = TokNone THEN Ok(VNone, PopArg(d))
  ELSE SomeOf(Deserialize(d, t))

\* the unit arm of deserialize_enum: visit_enum on the popped token as a
\* string deserializer, which names a variant and can only be a unit variant
UnitVariantOf(vs, tag, d) ==
  LET i == IndexOf([j \in 1..Len(vs) |-> vs[j].tag], tag)
  IN  IF i = 0 THEN Err("unknown variant", d)
      ELSE IF vs[i].form = "unit" THEN Ok(VUnitVariant(tag), d)
      ELSE Err("invalid type", d)

\* the variant of form and tag around its decoded payload p
VariantOf(p, form, tag) ==
  IF p.st # "ok" THEN p
  ELSE CASE form = "newtype" -> [p EXCEPT !.val = VNewtypeVariant(tag, @)]
         [] form = "tuple" -> [p EXCEPT !.val = VTupleVariant(tag, @.xs)]
         [] form = "struct" -> [p EXCEPT !.val = VStructVariant(tag, @.fs)]

\* the VariantAccess method the derived visit_enum calls on Enum, r the
\* variant EnumAccess::variant_seed has decoded: unit_variant,
\* newtype_variant_seed, tuple_variant or struct_variant
VariantAccess(r, vs) ==
  IF r.st # "ok" THEN r
  ELSE IF vs[r.val.i].form = "unit" THEN Panic(r.d)
  ELSE VariantOf(Deserialize(r.d,
                   CASE vs[r.val.i].form = "newtype" -> vs[r.val.i].t
                     [] vs[r.val.i].form = "tuple" -> TTuple(vs[r.val.i].ts)
                     [] vs[r.val.i].form = "struct" -> TStruct(vs[r.val.i].fs)),
                 vs[r.val.i].form, vs[r.val.i].tag)

\* the derived visit_enum on Enum::new(self)
visit_enum(d, vs) ==
  VariantAccess(deserialize_any(d, TIdent([j \in 1..Len(vs) |-> vs[j].tag], FALSE)), vs)

\* deserialize_enum without the pop of the closer
CloseEnum_NoPop(value) == value

\* self.args.pop().unwrap() after visit_enum(..)? has returned a value
CloseEnum(value) ==
  IF value.st # "ok" THEN value
  ELSE IF value.d.args = <<>> THEN Panic(value.d)
  ELSE [value EXCEPT !.d = PopArg(Logged(@, "close", LastArg(@)))]

\* Deserializer::deserialize_enum
deserialize_enum(d, ty) ==
  IF d.args = <<>> THEN Panic(d)
  ELSE IF LastArg(d) # TokOpen THEN UnitVariantOf(ty.vs, LastArg(d), PopArg(d))
  ELSE CloseEnum(visit_enum(PopArg(d), ty.vs))

\* T::deserialize(&mut deserializer): Option and enums have handlers of
\* their own, forward_to_deserialize_any! sends every other shape to
\* deserialize_any
Deserialize(d, ty) ==
  CASE ty.k = "opt" -> deserialize_option(d, ty.t)
    [] ty.k = "enum" -> deserialize_enum(d, ty)
    [] OTHER -> deserialize_any(d, ty)

\* from_iter without the test of the cursor
Finish_NoCheck(t) == t

\* the end of from_args and from_iter, t the result of T::deserialize
Finish(t) ==
  IF t.st # "ok" THEN t
  ELSE IF t.d.args = <<>> THEN t
  ELSE Err("premature cancel of parse", t.d)

from_iter(tokens, ty) == Finish(Deserialize(NewDeserializer(tokens), ty))

\* iter.skip(1): the binary's name is not decoded
from_args(tokens, ty) ==
  Finish(Deserialize(NewDeserializer(IF tokens = <<>> THEN <<>> ELSE Tail(tokens)), ty))

(***************************************************************************)
(* The inputs of the model.                                                *)
(***************************************************************************)
\* the characters of the scalar strings: the characters of the reserved
\* tokens, a digit, the decimal point, letters, and a character that
\* shell_escape quotes
Alpha == {"-", "1", ".", "n", "a", "t", "f", "[", "]", " "}

RECURSIVE TextsUpTo(_, _)
TextsUpTo(cs, n) ==
  IF n = 0 THEN {<<>>}
  ELSE LET shorter == TextsUpTo(cs, n - 1)
       IN  shorter \cup {Append(s, c) : s \in {x \in shorter : Len(x) = n - 1}, c \in cs}

Strings == TextsUpTo(Alpha, MaxLen)

\* the strings of elements, keys and fields of compound values
ElemStrs ==
  { <<"a">>, <<"b">>, <<"1">>, <<"-">>, <<"-", "-">>, <<"-", "t">>,
    <<"-", "-", "a">>, <<"]">>, <<"'", "a", " ", "b", "'">> }

KeyStrs == { <<"a">>, <<"b">>, <<"1">> }

\* the names of the tests' enum E and struct fields (de.rs, ser.rs)
TagUnit == <<"U", "n", "i", "t">>
TagNewtype == <<"N", "e", "w", "t", "y", "p", "e">>
TagTuple == <<"T", "u", "p", "l", "e">>
TagStruct == <<"S", "t", "r", "u", "c", "t">>
FieldA == <<"a">>
FieldSeq == <<"s", "e", "q">>
FieldMap == <<"m", "a", "p">>
FieldExtra == <<"e", "x", "t", "r", "a">>

\* enum E { Unit, Newtype(u32), Tuple(u32, u32), Struct { a: u32 } }
TypeE ==
  TEnum(<< UnitVar(TagUnit), NewtypeVar(TagNewtype, TU64),
           TupleVar(TagTuple, <<TU64, TU64>>),
           StructVar(TagStruct, <<Field(FieldA, TU64)>>) >>)

\* an enum whose tags read as floats: enum Num { NaN, Inf(u32) }
TypeNum ==
  TEnum(<<UnitVar(<<"N", "a", "N">>), NewtypeVar(<<"I", "n", "f">>, TU64)>>)

\* struct Test {} of test::unit_struct
TypeEmpty == TStruct(<<>>)

\* struct Test { seq: Vec<String>, extra: i32 } of test::empty_seq
TypeSeqExtra == TStruct(<<Field(FieldSeq, TSeq(TStr)), Field(FieldExtra, TI64)>>)

\* struct Test { map: HashMap<String, String>, extra: i32 } of test::empty_map,
\* the values numbers as in test::deserialize's map
TypeMapExtra == TStruct(<<Field(FieldMap, TMap(TU64)), Field(FieldExtra, TI64)>>)

\* a struct holding an empty struct and an enum
TypeNest == TStruct(<<Field(FieldA, TypeEmpty), Field(FieldExtra, TypeE)>>)

SmallNats == {0, 1, 10}
SmallInts == {-1, 0, 12}

\* every sequence over the set xs of at most n elements
RECURSIVE SeqsUpTo(_, _)
SeqsUpTo(xs, n) ==
  IF n = 0 THEN {<<>>}
  ELSE LET shorter == SeqsUpTo(xs, n - 1)
       IN  shorter \cup {Append(s, x) : s \in {y \in shorter : Len(y) = n - 1}, x \in xs}

\* the values of a shape; elems says the value is a part of a compound value
RECURSIVE ValuesOf(_, _)
ValuesOf(ty, elems) ==
  CASE ty.k = "bool" -> {VBool(TRUE), VBool(FALSE)}
    [] ty.k = "u64" -> {VU64(n) : n \in IF elems THEN {1, 2} ELSE SmallNats}
    [] ty.k = "i64" -> {VI64(n) : n \in IF elems THEN {-1} ELSE SmallInts}
    [] ty.k = "str" -> {VStr(s) : s \in IF elems THEN ElemStrs ELSE Strings}
    [] ty.k = "opt" -> {VNone} \cup {VSome(v) : v \in ValuesOf(ty.t, TRUE)}
    [] ty.k = "seq" -> {VSeq(xs) : xs \in SeqsUpTo(ValuesOf(ty.t, TRUE), MaxSeq)}
    [] ty.k = "map" ->
         {VMap(kv) : kv \in
            {e \in SeqsUpTo({[key |-> key, val |-> v] :
                               key \in KeyStrs, v \in ValuesOf(ty.t, TRUE)}, MaxSeq) :
               \A i, j \in 1..Len(e) : i # j => e[i].key # e[j].key}}
    [] ty.k = "struct" ->
         IF ty.fs = <<>> THEN {VStruct(<<>>)}
         ELSE {VStruct(<<[name |-> ty.fs[1].name, val |-> v]>> \o rest.fs) :
                 v \in ValuesOf(ty.fs[1].t, TRUE),
                 rest \in ValuesOf(TStruct(Tail(ty.fs)), TRUE)}
    [] ty.k = "enum" ->
         UNION { LET v == ty.vs[i]
                 IN  CASE v.form = "unit" -> {VUnitVariant(v.tag)}
                       [] v.form = "newtype" ->
                            {VNewtypeVariant(v.tag, p) : p \in ValuesOf(v.t, TRUE)}
                       [] v.form = "tuple" ->
                            {VTupleVariant(v.tag, [j \in 1..Len(v.ts) |-> p.fs[j].val]) :
                               p \in ValuesOf(TStruct([j \in 1..Len(v.ts) |->
                                          Field(<<>>, v.ts[j])]), TRUE)}
                       [] v.form = "struct" ->
                            {VStructVariant(v.tag, p.fs) :
                               p \in ValuesOf(TStruct(v.fs), TRUE)}
                 : i \in 1..Len(ty.vs) }

\* the shapes values are encoded from
Shapes ==
  { TBool, TU64, TI64, TStr, TOpt(TU64), TOpt(TStr), TSeq(TStr), TSeq(TU64),
    TSeq(TSeq(TU64)), TSeq(TypeEmpty), TSeq(TypeE), TMap(TU64), TMap(TStr),
    TypeEmpty, TypeSeqExtra, TypeMapExtra, TypeNest, TypeE, TypeNum,
    TOpt(TSeq(TStr)) }

\* the shapes token lists are decoded against
Targets ==
  { TBool, TU64, TI64, TStr, TOpt(TU64), TSeq(TU64), TSeq(TStr), TMap(TU64),
    TypeEmpty, TStruct(<<Field(FieldA, TU64)>>), TypeE, TIgnored }

\* the tokens of the freely drawn token lists
Vocab ==
  { TokTrue, TokNone, TokEscape, TokOpen, TokClose, TokEmptySeq, TokEmptyMap,
    KeyTok(FieldA), <<"1">>, <<"a">> }

One == <<"1">>
Two == <<"2">>
MinusOne == <<"-", "1">>

\* the token lists of the tests of de.rs
TestLists ==
  { <<TagUnit>>,
    <<TokOpen, KeyTok(TagNewtype), One, TokClose>>,
    <<TokOpen, KeyTok(TagTuple), TokOpen, One, Two, TokClose, TokClose>>,
    <<TokOpen, KeyTok(TagStruct), TokOpen, KeyTok(FieldA), One, TokClose, TokClose>>,
    <<TokOpen, KeyTok(FieldSeq), TokEmptySeq, KeyTok(FieldExtra), MinusOne, TokClose>>,
    <<TokOpen, KeyTok(FieldMap), TokEmptyMap, KeyTok(FieldExtra), MinusOne, TokClose>>,
    <<TokOpen, KeyTok(TagUnit), TokClose>>,
    <<TokOpen, One, Two, <<"3">>, TokClose>>,
    <<TokOpen, TokEmptySeq, TokEmptySeq, TokClose>> }

\* each test list, cut short anywhere (malformed input), whole, or followed
\* by one more token (trailing input)
TestVariants ==
  UNION { {SubSeq(l, 1, n) : n \in 0..Len(l)} \cup {Append(l, x) : x \in {One, TokClose}}
          : l \in TestLists }

TokenLists == SeqsUpTo(Vocab, MaxToks) \cup TestVariants

AllTargets == Targets \cup {TypeSeqExtra, TypeMapExtra, TSeq(TypeEmpty)}

\* argv[0], which from_args skips
Binary == <<".", "/", "b">>

(***************************************************************************)
(* The state machine: a caller that encodes a value with to_params and     *)
(* decodes the output with from_args, as test::ser_then_de does, or        *)
(* decodes a token list of its own with from_iter or from_args, or makes   *)
(* one request of the decoder's handlers on a fresh Deserializer.          *)
(*   pc      "start", "encoded" (to_params has returned), "done"           *)
(*   op      the operation that made res                                   *)
(*   ty      the shape encoded from / decoded against                      *)
(*   val     the value given to to_params                                  *)
(*   ser     the Serializer                                                *)
(*   tokens  the token list given to the decoder                           *)
(*   res     the result of the decode                                      *)
(***************************************************************************)
VARIABLES pc, op, ty, val, ser, tokens, res

vars == <<pc, op, ty, val, ser, tokens, res>>

Init ==
  /\ pc = "start"
  /\ op = "none"
  /\ ty = TIgnored
  /\ val = NoVal
  /\ ser = NewSerializer
  /\ tokens = <<>>
  /\ res = [st |-> "none", val |-> NoVal, msg |-> "", d |-> NewDeserializer(<<>>)]

\* to_params(&value)
ToParams ==
  /\ pc = "start"
  /\ \E t \in Shapes : \E v \in ValuesOf(t, FALSE) :
       /\ ty' = t
       /\ val' = v
       /\ ser' = Serialize(ser, v)
  /\ pc' = "encoded"
  /\ op' = "to_params"
  /\ UNCHANGED <<tokens, res>>

\* from_args on the encoder's output behind the binary's name
FromArgsEncoded ==
  /\ pc = "encoded"
  /\ tokens' = <<Binary>> \o ser.output
  /\ res' = from_args(tokens', ty)
  /\ pc' = "done"
  /\ op' = "from_args"
  /\ UNCHANGED <<ty, val, ser>>

\* from_args on a command line
FromArgs ==
  /\ pc = "start"
  /\ \E l \in TokenLists : \E t \in AllTargets :
       /\ tokens' = <<Binary>> \o l
       /\ ty' = t
       /\ res' = from_args(tokens', t)
  /\ pc' = "done"
  /\ op' = "from_args"
  /\ UNCHANGED <<val, ser>>

\* from_iter on a token list
FromIter ==
  /\ pc = "start"
  /\ \E l \in TokenLists : \E t \in AllTargets :
       /\ tokens' = l
       /\ ty' = t
       /\ res' = from_iter(l, t)
  /\ pc' = "done"
  /\ op' = "from_iter"
  /\ UNCHANGED <<val, ser>>

\* one untyped request: deserialize_any with the visitor of shape t
DeserializeAny ==
  /\ pc = "start"
  /\ \E l \in TokenLists : \E t \in AllTargets \ {TypeE, TOpt(TU64)} :
       /\ tokens' = l
       /\ ty' = t
       /\ res' = deserialize_any(NewDeserializer(l), t)
  /\ pc' = "done"
  /\ op' = "deserialize_any"
  /\ UNCHANGED <<val, ser>>

\* one option request: Option<T>::deserialize
DeserializeOption ==
  /\ pc = "start"
  /\ \E l \in TokenLists : \E t \in {TU64, TStr, TSeq(TU64), TypeE} :
       /\ tokens' = l
       /\ ty' = TOpt(t)
       /\ res' = deserialize_option(NewDeserializer(l), t)
  /\ pc' = "done"
  /\ op' = "deserialize_option"
  /\ UNCHANGED <<val, ser>>

\* one enum request: E::deserialize
DeserializeEnum ==
  /\ pc = "start"
  /\ \E l \in TokenLists :
       /\ tokens' = l
       /\ ty' = TypeE
       /\ res' = deserialize_enum(NewDeserializer(l), TypeE)
  /\ pc' = "done"
  /\ op' = "deserialize_enum"
  /\ UNCHANGED <<val, ser>>

Next ==
  \/ ToParams
  \/ FromArgsEncoded
  \/ FromArgs
  \/ FromIter
  \/ DeserializeAny
  \/ DeserializeOption
  \/ DeserializeEnum

Spec == Init /\ [][Next]_vars

(***************************************************************************)
(* What the claims speak of.                                               *)
(***************************************************************************)
\* a decode has returned or aborted
Decoded == pc = "done"

\* to_params has returned a value's tokens
Encoded == pc \in {"encoded", "done"} /\ val.k # "noval"

\* the token list the Deserializer was built from
Input == IF op = "from_args" /\ tokens # <<>> THEN Tail(tokens) ELSE tokens

\* a token that starts with "--" and has more than two characters
KeyLike(tok) == Len(tok) > 2 /\ tok[1] = "-" /\ tok[2] = "-"

\* a token the scalar dispatch reads as a number
NumberLike(tok) == parse_u64_ok(tok) \/ parse_i64_ok(tok) \/ parse_f64_ok(tok)

LastOf(s) == s[Len(s)]

\* no token of the list is one that shell_escape has put in quotes
Unquoted(toks) == \A i \in 1..Len(toks) : ~starts_with(toks[i], <<"'">>)

\* the concatenation of a sequence of token lists
RECURSIVE Flatten(_)
Flatten(ls) == IF ls = <<>> THEN <<>> ELSE Head(ls) \o Flatten(Tail(ls))

(***************************************************************************)
(* C1.  Round trip: decoding the token list to_params(v) gives against     *)
(* v's type succeeds and yields v.  It is stated for the values whose      *)
(* tokens the shell escaping has left unquoted (a quoted token is meant to *)
(* pass through a shell first).  The code breaks it: a string such as "-t" *)
(* is emitted bare and read back as a boolean, an empty map is emitted as  *)
(* "[" "]" and read back as a sequence.                                    *)
(***************************************************************************)
C1_RoundTrip ==
  (Decoded /\ Encoded /\ Unquoted(ser.output)) =>
    (res.st = "ok" /\ res.val = val)

(***************************************************************************)
(* C2.  Trailing input: when the top-level decode succeeds and a token is  *)
(* left, from_iter and from_args return                                    *)
(* Err(Message("premature cancel of parse")) and no value; a value is      *)
(* returned only with the cursor empty.                                    *)
(***************************************************************************)
C2_TrailingInput ==
  (Decoded /\ op \in {"from_iter", "from_args"}) =>
    LET t == Deserialize(NewDeserializer(Input), ty)
    IN  /\ (t.st = "ok" /\ t.d.args # <<>>) =>
             (res.st = "err" /\ res.msg = "premature cancel of parse"
                /\ res.val = NoVal)
        /\ res.st = "ok" => (res.d.args = <<>> /\ res.val = t.val)

\* test: ["-t", "extra"] against a boolean is refused for its trailing token
C2_Witness ==
  /\ Decoded
  /\ op = "from_iter"
  /\ ty = TBool
  /\ tokens = <<TokTrue, <<"a">>>>
  /\ res.st = "err"
  /\ res.msg = "premature cancel of parse"

(***************************************************************************)
(* C3.  No decode aborts the process: malformed input gives an error       *)
(* result.  The code unwraps the missing token instead: "[" alone panics.  *)
(***************************************************************************)
C3_NeverPanics == Decoded => res.st # "panic"

(***************************************************************************)
(* C4.  Ambiguity escaping: a string whose escaped form is "-", "--" or    *)
(* reads as a number is emitted as the two tokens "--" and the text, and   *)
(* the decode of the two gives the string back through visit_str, both     *)
(* tokens consumed.                                                        *)
(***************************************************************************)
C4_AmbiguityEscaping ==
  (Encoded /\ val.k = "str"
     /\ (escape(val.s) \in {<<"-">>, <<"-", "-">>} \/ NumberLike(escape(val.s)))) =>
    /\ ser.output = <<TokEscape, val.s>>
    /\ Decoded =>
         /\ res.st = "ok"
         /\ res.val = VStr(val.s)
         /\ res.d.args = <<>>
         /\ res.d.log = <<[ev |-> "visit_str", tok |-> TokEscape, n |-> 0]>>

\* the string "1.1" has come back as a string
C4_Witness ==
  /\ Decoded
  /\ val = VStr(<<"1", ".", "1">>)
  /\ tokens = <<Binary, TokEscape, <<"1", ".", "1">>>>
  /\ res.st = "ok"

(***************************************************************************)
(* C5.  Bracket disambiguation: a dispatch that pops "[" calls visit_map   *)
(* exactly when the next token starts with "--" and is longer than two     *)
(* characters, visit_seq otherwise, and pops one token as the closer after *)
(* the callback; "[]" alone is an empty sequence and "[--]" an empty map   *)
(* or struct, one token consumed, the following tokens decoded as usual.   *)
(***************************************************************************)
C5_BracketDisambiguation ==
  Decoded =>
    LET args0 == NewDeserializer(Input).args
        log   == res.d.log
    IN  /\ \A i \in 1..Len(log) :
             (log[i].tok = TokOpen /\ log[i].ev \in {"visit_map", "visit_seq"}) =>
               (log[i].ev = "visit_map" <=> KeyLike(args0[log[i].n]))
        /\ (op = "deserialize_any" /\ Input # <<>> /\ Input[1] = TokOpen
              /\ res.st # "panic") =>
             /\ LastOf(log).ev = "close"
             /\ LastOf(log).tok = args0[LastOf(log).n]
             /\ Len(res.d.args) = LastOf(log).n - 1
        /\ (op = "deserialize_any" /\ Input # <<>> /\ Input[1] = TokEmptySeq
              /\ ty.k = "seq") =>
             /\ res.st = "ok" /\ res.val = VSeq(<<>>)
             /\ Remaining(res.d) = Tail(Input) /\ ~res.d.empty
        /\ (op = "deserialize_any" /\ Input # <<>> /\ Input[1] = TokEmptyMap
              /\ ty \in {TMap(TU64), TypeEmpty}) =>
             /\ res.st = "ok"
             /\ res.val = (IF ty.k = "map" THEN VMap(<<>>) ELSE VStruct(<<>>))
             /\ Remaining(res.d) = Tail(Input) /\ ~res.d.empty
        /\ (op = "from_iter" /\ ty = TypeSeqExtra
              /\ Input = <<TokOpen, KeyTok(FieldSeq), TokEmptySeq,
                           KeyTok(FieldExtra), MinusOne, TokClose>>) =>
             /\ res.st = "ok"
             /\ res.val = VStruct(<<[name |-> FieldSeq, val |-> VSeq(<<>>)],
                                    [name |-> FieldExtra, val |-> VI64(-1)]>>)
        /\ (op = "from_iter" /\ ty = TypeMapExtra
              /\ Input = <<TokOpen, KeyTok(FieldMap), TokEmptyMap,
                           KeyTok(FieldExtra), MinusOne, TokClose>>) =>
             /\ res.st = "ok"
             /\ res.val = VStruct(<<[name |-> FieldMap, val |-> VMap(<<>>)],
                                    [name |-> FieldExtra, val |-> VI64(-1)]>>)

\* "[" "--Newtype" "1" "]" has been read as a map of one entry
C5_Witness ==
  /\ Decoded
  /\ op = "deserialize_any"
  /\ ty = TMap(TU64)
  /\ tokens = <<TokOpen, KeyTok(TagNewtype), One, TokClose>>
  /\ res.st = "ok"
  /\ res.val = VMap(<<[key |-> TagNewtype, val |-> VU64(1)]>>)
  /\ res.d.log[1].ev = "visit_map"

(***************************************************************************)
(* C6.  Enum decoding: a next token other than "[" is consumed, alone, as  *)
(* the tag of a unit variant; after "[" the decoder reads the tag token,   *)
(* the payload and one closing token, so that the four test forms decode   *)
(* to the four variants with the cursor empty.                             *)
(***************************************************************************)
C6_EnumDecoding ==
  (Decoded /\ op = "deserialize_enum" /\ Input # <<>>) =>
    LET log == res.d.log
    IN  /\ Input[1] # TokOpen =>
             /\ res.st # "panic"
             /\ Remaining(res.d) = Tail(Input)
             /\ res.st = "ok" => res.val = VUnitVariant(Input[1])
             /\ Input[1] = TagUnit => res.st = "ok"
        /\ (Input[1] = TokOpen /\ res.st = "ok") =>
             /\ log[1].tok = Input[2]
             /\ KeyLike(Input[2]) => res.val.tag = DropChars(Input[2], 2)
             /\ LastOf(log).ev = "close"
             /\ Len(res.d.args) = LastOf(log).n - 1
        /\ Input = <<TokOpen, KeyTok(TagNewtype), One, TokClose>> =>
             /\ res.st = "ok" /\ res.d.args = <<>>
             /\ res.val = VNewtypeVariant(TagNewtype, VU64(1))
        /\ Input = <<TokOpen, KeyTok(TagTuple), TokOpen, One, Two, TokClose, TokClose>> =>
             /\ res.st = "ok" /\ res.d.args = <<>>
             /\ res.val = VTupleVariant(TagTuple, <<VU64(1), VU64(2)>>)
        /\ Input = <<TokOpen, KeyTok(TagStruct), TokOpen, KeyTok(FieldA), One,
                     TokClose, TokClose>> =>
             /\ res.st = "ok" /\ res.d.args = <<>>
             /\ res.val = VStructVariant(TagStruct, <<[name |-> FieldA, val |-> VU64(1)]>>)

\* "[" "--Tuple" "[" "1" "2" "]" "]" has been read as Tuple(1, 2)
C6_Witness ==
  /\ Decoded
  /\ op = "deserialize_enum"
  /\ tokens = <<TokOpen, KeyTok(TagTuple), TokOpen, One, Two, TokClose, TokClose>>
  /\ res.st = "ok"
  /\ res.val.k = "tuple_variant"
  /\ res.d.args = <<>>

(***************************************************************************)
(* C7.  Struct encoding: a struct of one or more fields is "[", then       *)
(* "--<name>" and the value's tokens for each field in order, then one     *)
(* "]"; a struct of no field is the one token "[--]", and only its own end *)
(* step is suppressed: the "]" of a group around it is emitted.            *)
(***************************************************************************)
FieldTokens(fs) ==
  Flatten([i \in 1..Len(fs) |-> <<KeyTok(fs[i].name)>> \o to_params(fs[i].val)])

C7_StructEncoding ==
  Encoded =>
    /\ val.k = "struct" =>
         /\ ser.output = (IF val.fs = <<>> THEN <<TokEmptyMap>>
                          ELSE <<TokOpen>> \o FieldTokens(val.fs) \o <<TokClose>>)
         /\ ~ser.empty_struct
    /\ ty = TSeq(TypeEmpty) =>
         ser.output = <<TokOpen>> \o [i \in 1..Len(val.xs) |-> TokEmptyMap]
                        \o <<TokClose>>
    /\ ty = TypeNest =>
         /\ SubSeq(ser.output, 1, 4) =
              <<TokOpen, KeyTok(FieldA), TokEmptyMap, KeyTok(FieldExtra)>>
         /\ LastOf(ser.output) = TokClose
         /\ Len(ser.output) > 5

\* a struct that holds an empty struct has been encoded
C7_Witness ==
  /\ pc = "encoded"
  /\ ty = TypeNest
  /\ val.fs[2].val = VUnitVariant(TagUnit)
  /\ ser.output = <<TokOpen, KeyTok(FieldA), TokEmptyMap, KeyTok(FieldExtra),
                    TagUnit, TokClose>>

(***************************************************************************)
(* C8.  Enum encoding: a unit variant is its tag through the string path,  *)
(* a newtype variant "[" "--<tag>" payload "]", a tuple variant            *)
(* "[" "--<tag>" "[" elements "]" "]", a struct variant                    *)
(* "[" "--<tag>" "[" fields "]" "]".  The code breaks the newtype form for *)
(* a tag that reads as a number (Inf): serialize_key leaves the "--"       *)
(* escape token of the string path in the output, in front of the key.     *)
(***************************************************************************)
C8_EnumEncoding ==
  Encoded =>
    /\ val.k = "unit_variant" =>
         ser.output = serialize_str(NewSerializer, val.tag).output
    /\ val.k = "newtype_variant" =>
         ser.output = <<TokOpen, KeyTok(val.tag)>> \o to_params(val.o) \o <<TokClose>>
    /\ val.k = "tuple_variant" =>
         ser.output = <<TokOpen, KeyTok(val.tag), TokOpen>>
                        \o Flatten([i \in 1..Len(val.xs) |-> to_params(val.xs[i])])
                        \o <<TokClose, TokClose>>
    /\ val.k = "struct_variant" =>
         ser.output = <<TokOpen, KeyTok(val.tag), TokOpen>>
                        \o FieldTokens(val.fs) \o <<TokClose, TokClose>>

(***************************************************************************)
(* C9.  Option decoding: a next token "-n" is consumed, alone, and the     *)
(* answer is None; on any other next token the decoder consumes nothing    *)
(* itself and answers Some of what the normal decode of the contained      *)
(* value gives from the same cursor.                                       *)
(***************************************************************************)
C9_OptionDecoding ==
  (Decoded /\ op = "deserialize_option" /\ Input # <<>>) =>
    LET inner == Deserialize(NewDeserializer(Input), ty.t)
    IN  IF Input[1] = TokNone
        THEN /\ res.st = "ok"
             /\ res.val = VNone
             /\ Remaining(res.d) = Tail(Input)
             /\ res.d.log = <<>>
        ELSE /\ res.st = inner.st
             /\ res.d = inner.d
             /\ res.msg = inner.msg
             /\ res.val = (IF inner.st = "ok" THEN VSome(inner.val) ELSE NoVal)

\* "1" has been read as Some(1), "-n" "1" as None with "1" left
C9_Witness ==
  /\ Decoded
  /\ op = "deserialize_option"
  /\ ty = TOpt(TU64)
  /\ \/ tokens = <<One>> /\ res.val = VSome(VU64(1)) /\ res.d.args = <<>>
     \/ tokens = <<TokNone, One>> /\ res.val = VNone /\ res.d.args = <<One>>

(***************************************************************************)
(* C10.  Every string the encoder emits, as a scalar or as a unit          *)
(* variant's tag, is read by the untyped dispatch as a string of the same  *)
(* text (stated for the strings that the shell escaping leaves unquoted).  *)
(* The code breaks it: the strings "-t", "-f" and "-n" are emitted bare    *)
(* and read as a boolean or as None, "--a" is read as the key "a".         *)
(***************************************************************************)
C10_StringsStayStrings ==
  (Encoded /\ val.k \in {"str", "unit_variant"} /\ Unquoted(ser.output)) =>
    LET r == deserialize_any(NewDeserializer(ser.output), TStr)
    IN  /\ r.st = "ok"
        /\ r.val = VStr(IF val.k = "str" THEN val.s ELSE val.tag)


(***************************************************************************)
(* C11.  Encoder and decoder agree on the kind of a group: decoding the    *)
(* tokens of an encoded sequence, the untyped dispatch's first callback is *)
(* the sequence callback, and decoding the tokens of an encoded map or     *)
(* struct it is the map callback.  The code breaks it: the sequence        *)
(* ["--a"] is emitted as "[" "--a" "]" and the lookahead takes "--a" for a *)
(* key, a map without entries is emitted as "[" "]" and the lookahead      *)
(* takes "]" for the start of a sequence.                                  *)
(***************************************************************************)
C11_GroupKindAgreement ==
  (Decoded /\ Encoded /\ val.k \in {"seq", "map", "struct"}) =>
    /\ res.d.log # <<>>
    /\ res.d.log[1].ev = IF val.k = "seq" THEN "visit_seq" ELSE "visit_map"

(***************************************************************************)
(* C12.  Map key rewriting: serialize_key leaves one token per key, the    *)
(* key's escaped text in field-name form ("--<key>", or "'--<rest>" for a  *)
(* quoted key), so that an encoded map is "[", then that one token and the *)
(* value's tokens for each entry, then "]".  The code breaks it: for the   *)
(* key "1" serialize_str emits "--" and "1", serialize_key rewrites the    *)
(* last token only, and the "--" stays in the output in front of "--1".    *)
(***************************************************************************)
KeyForm(key) ==
  IF starts_with(escape(key), <<"'">>)
  THEN <<"'", "-", "-">> \o DropChars(escape(key), 1)
  ELSE KeyTok(escape(key))

EntryTokens(kv) ==
  Flatten([i \in 1..Len(kv) |-> <<KeyForm(kv[i].key)>> \o to_params(kv[i].val)])

C12_MapKeyRewriting ==
  (Encoded /\ val.k = "map") =>
    ser.output = <<TokOpen>> \o EntryTokens(val.kv) \o <<TokClose>>

(***************************************************************************)
(* C13.  Bracket matching on decode: in a decode that returns a value,     *)
(* every token popped as the closer of a "[" group (after the sequence or  *)
(* map callback, and after an enum's payload) is "]".  The code breaks it: *)
(* the pop after the callback takes whatever token is next, so a struct    *)
(* of one field read by position accepts "[" "1" "a".                      *)
(***************************************************************************)
C13_BracketMatching ==
  (Decoded /\ res.st = "ok") =>
    \A i \in 1..Len(res.d.log) :
      res.d.log[i].ev = "close" => res.d.log[i].tok = TokClose

(***************************************************************************)
(* C14.  The empty-group flag is one-shot and local: set by "[]" or        *)
(* "[--]", cleared by the end-of-group answer of that group, and never the *)
(* reason for which another group reports its end before its "]".  Hence a *)
(* sequence of empty groups between "[" and "]" decodes to as many empty   *)
(* structs, and the flag is false afterwards.                              *)
(* The code breaks it: a struct of no field that is given "[]" is read by  *)
(* position, asks for no element and returns with the flag set; the next   *)
(* request of the sequence around it is answered with end-of-group.        *)
(***************************************************************************)
EmptyGroups(toks) ==
  /\ Len(toks) >= 2
  /\ toks[1] = TokOpen
  /\ toks[Len(toks)] = TokClose
  /\ \A i \in 2..(Len(toks) - 1) : toks[i] \in {TokEmptySeq, TokEmptyMap}

C14_EmptyFlagOneShot ==
  (Decoded /\ ty = TSeq(TypeEmpty) /\ EmptyGroups(Input)) =>
    /\ res.st = "ok"
    /\ res.val = VSeq([i \in 1..(Len(Input) - 2) |-> VStruct(<<>>)])
    /\ ~res.d.empty

====
